---- MODULE Spec2Model ----
(***************************************************************************)
(* Model of src/index.js: the A-Frame `firebase` system (broadcast table,  *)
(* replica table, remote event handlers, registration, broadcast tick) of  *)
(* two clients that share one Firebase `entities` collection.              *)
(*                                                                         *)
(* Every client loads the same page: a root-level element #par and an      *)
(* element #box1 that the host appends under the scene or under #par.      *)
(***************************************************************************)
EXTENDS Integers, FiniteSets, Sequences, TLC

\* ------------------------------------------------------------------ bounds
MaxTime == 1               \* tick timestamps are drawn from 0..MaxTime
MaxCount == 2              \* history counters saturate here

\* --------------------------------------------------------------- constants
DefaultInterval == 10      \* `config.interval || 10`

Clients == {1, 2}
DomIds == {"box1", "par"}  \* the `id` attributes of the page's elements

\* this.clientId = uuid.v4(): one identity per client, all distinct.
ClientId(c) == c
NoOwner == 0               \* owner: {default: ''}
EmptyId == ""              \* id: {default: ''}
NoParentId == "absent"     \* the record has no parentId field

\* database.child('entities').push().key: a fresh key per call, never equal to
\* another call's key or to an element id.  Each (client, element) registers
\* at most once, so the pair names the call.
PushKey(c, e) == "-K" \o ToString(c) \o e
PushKeys == {PushKey(c, e) : c \in Clients, e \in DomIds}
Keys == DomIds \cup PushKeys
\* Object.keys(snapshot.val()): Firebase orders children by key.
KeyOrder == <<PushKey(1, "box1"), PushKey(1, "par"), PushKey(2, "box1"),
              PushKey(2, "par"), "box1", "par">>

\* Entity handles: the page's elements and the replicas document.createElement
\* makes, one per record key.
El(id) == "el:" \o id
Rep(k) == "rep:" \o k
Elements == {El(i) : i \in DomIds}
Handles == Elements \cup {Rep(k) : k \in Keys}
Undefined == "undefined"   \* a table has no such key
Null == "null"             \* querySelector found nothing
Scene == "scene"           \* this.sceneEl
Detached == "none"         \* parentNode is null
Falsy(h) == h \in {Undefined, Null}

\* Timestamps: this.time is undefined until the first executed tick.
NoTime == -1

VARIABLES
  page,                  \* per client: the page it loaded (never changes)
  status,                \* per client: "inert" (no config), "online", "gone"
  interval,              \* this.interval
  time,                  \* this.time
  broadcastingEntities,  \* this.broadcastingEntities: key -> handle
  entities,              \* this.entities: key -> handle
  parentNode,            \* el.parentNode of every handle
  bdata,                 \* the firebase-broadcast component data of elements
  once,                  \* el.firebaseBroadcastOnce
  attrs,                 \* attribute names the remote handlers set per handle
  store,                 \* the channel's `entities` collection
  onDisconnect,          \* per client: paths with a registered onDisconnect().remove()
  childAdded,            \* per client: keys whose child_added has fired
  snapshotDone,          \* per client: the once('value') callback has run
  addCount,              \* per client and key: handleEntityAdded calls since its removal
  lastTick,              \* the updates the step just taken issued (an executed tick)
  issuedCount,           \* per client and element id: updates issued so far
  onceCount,             \* ... of which carried the componentsOnce components
  foreignOwnerSeen       \* per client: an event for a key it broadcasts carried another owner

vars == <<page, status, interval, time, broadcastingEntities, entities, parentNode,
          bdata, once, attrs, store, onDisconnect, childAdded, snapshotDone,
          addCount, lastTick, issuedCount, onceCount, foreignOwnerSeen>>

localVars == <<broadcastingEntities, entities, parentNode, bdata, once, attrs>>
ghostVars == <<addCount, issuedCount, onceCount, foreignOwnerSeen>>

NoTick == [c |-> 0, updates |-> {}]
Inc(n) == IF n < MaxCount THEN n + 1 ELSE n

\* -------------------------------------------------------------- data shapes
NoRecord == [exists |-> FALSE, id |-> EmptyId, shared |-> FALSE, owner |-> NoOwner,
             parentId |-> NoParentId, comps |-> {}]

\* schema of firebase-broadcast; `has` says the component is on the element.
NoComponent == [has |-> FALSE, id |-> EmptyId, shared |-> FALSE, owner |-> NoOwner,
                components |-> {}, componentsOnce |-> {}]

\* The firebase-broadcast attributes a page gives its elements (schema,
\* lines 231-237).  #box1 publishes `position` every tick and `material` once.
SharedBox == [has |-> TRUE, id |-> EmptyId, shared |-> TRUE, owner |-> NoOwner,
              components |-> {"position"}, componentsOnce |-> {"material"}]
PlainBox == [SharedBox EXCEPT !.shared = FALSE]
OwnedBox(o) == [SharedBox EXCEPT !.owner = o]
PlainPar == [has |-> TRUE, id |-> EmptyId, shared |-> FALSE, owner |-> NoOwner,
             components |-> {"position"}, componentsOnce |-> {}]
EmptyPar == [PlainPar EXCEPT !.components = {}]

\* A page: the configuration of #box1 and of #par (NoComponent: the element
\* never carries the component) and where the host appends #box1 (Detached:
\* the page has no #box1).
PageOf(box, under, par) == [box1 |-> box, under |-> under, par |-> par]

\* The scenes checked: which page each client loaded, and whether its scene
\* carries a usable `firebase` configuration.
Online == [c \in Clients |-> "online"]
\* both clients publish the shared #box1
SetupShared ==
  [page |-> [c \in Clients |-> PageOf(SharedBox, Scene, NoComponent)],
   status |-> Online]
\* client 1 publishes #par and a plain #box1 below it, client 2 only listens
SetupTree ==
  [page |-> [c \in Clients |-> IF c = 1 THEN PageOf(PlainBox, El("par"), PlainPar)
                                ELSE PageOf(NoComponent, Detached, NoComponent)],
   status |-> Online]
\* client 1 has a shared #box1 below a #par with an empty component list,
\* client 2's page names client 1 as the owner of #box1
SetupOwned ==
  [page |-> [c \in Clients |-> IF c = 1 THEN PageOf(SharedBox, El("par"), EmptyPar)
                                ELSE PageOf(OwnedBox(ClientId(1)), Scene, NoComponent)],
   status |-> Online]
\* both clients publish a plain #par
SetupCollide ==
  [page |-> [c \in Clients |-> PageOf(NoComponent, Detached, PlainPar)],
   status |-> Online]
\* client 1 has no configuration
SetupInert ==
  [page |-> [c \in Clients |-> PageOf(SharedBox, Scene, PlainPar)],
   status |-> [c \in Clients |-> IF c = 1 THEN "inert" ELSE "online"]]

Setups == {SetupShared, SetupTree, SetupOwned, SetupCollide, SetupInert}

\* config.interval || 10
IntervalOf(cfg) == IF cfg = 0 THEN DefaultInterval ELSE cfg
ConfigIntervals == {0, 1}  \* `interval` absent from the configuration, or 1

\* ------------------------------------------------------------ DOM helpers
Get(tbl, k) == IF k \in DOMAIN tbl THEN tbl[k] ELSE Undefined

\* The handle is attached below the scene root.
RECURSIVE InScene(_, _)
InScene(pn, h) ==
  IF pn[h] = Scene THEN TRUE
  ELSE IF pn[h] = Detached THEN FALSE
  ELSE InScene(pn, pn[h])

\* this.sceneEl.querySelector('#' + id): the page element with that id, or a
\* replica whose id attribute was set to it (the record under key k carries
\* id = k, see broadcastEntity), or null.
querySelector(L, id) ==
  IF id \in DomIds /\ InScene(L.parentNode, El(id)) THEN El(id)
  ELSE IF id \in Keys /\ "id" \in L.attrs[Rep(id)] /\ InScene(L.parentNode, Rep(id))
       THEN Rep(id)
       ELSE Null

\* Object.keys(record): the reserved fields and the component names.
RecordKeys(data) ==
  (IF data.id # EmptyId THEN {"id"} ELSE {}) \cup {"firebase-broadcast"} \cup
  (IF data.parentId # NoParentId THEN {"parentId"} ELSE {}) \cup data.comps

\* The local state of client c that the remote handlers read and write;
\* `sets` collects the setAttribute(entity, name, value) calls a handler makes
\* and `threw` says that it ended in a TypeError.
Local(c) == [c |-> c, entities |-> entities[c], parentNode |-> parentNode[c],
             attrs |-> attrs[c], addCount |-> addCount[c],
             sets |-> {}, threw |-> FALSE]

\* ----------------------------------------------------------- remote handlers
\* handleEntityAdded(id, data).  `threw` records the TypeError of
\* setAttribute(null, ...) which ends the handler after line 88.
handleEntityAddedKnown(L, id) ==
  ~Falsy(L.entities[id]) \/ ~Falsy(broadcastingEntities[L.c][id])

\* (variant: line 98 missing, every created entity is appended to the scene)
handleEntityAddedAtRoot(L, id, data) ==
  LET L0 == [L EXCEPT !.addCount[id] = Inc(@)] IN
  IF handleEntityAddedKnown(L, id) THEN L0
  ELSE
    LET reuse == data.shared /\ data.id # EmptyId
        entity == IF reuse THEN querySelector(L, data.id) ELSE Rep(id)
        names == RecordKeys(data) \ {"firebase-broadcast", "parentId"}
        L1 == [L0 EXCEPT !.entities[id] = entity]
    IN IF entity = Null
       THEN IF names = {} THEN L1 ELSE [L1 EXCEPT !.threw = TRUE]
       ELSE IF reuse
            THEN [L1 EXCEPT !.attrs[entity] = @ \cup names,
                            !.sets = @ \cup {<<entity, n>> : n \in names}]
            ELSE [L1 EXCEPT !.attrs[entity] = names,
                            !.sets = @ \cup {<<entity, n>> : n \in names},
                            !.parentNode[entity] = Scene]

handleEntityAdded(L, id, data) ==
  LET L0 == [L EXCEPT !.addCount[id] = Inc(@)] IN
  IF handleEntityAddedKnown(L, id) THEN L0
  ELSE
    LET reuse == data.shared /\ data.id # EmptyId
        entity == IF reuse THEN querySelector(L, data.id) ELSE Rep(id)
        names == RecordKeys(data) \ {"firebase-broadcast", "parentId"}
        L1 == [L0 EXCEPT !.entities[id] = entity]
        found == Get(L1.entities, data.parentId)
        parentEl == IF Falsy(found) THEN Scene ELSE found
    IN IF entity = Null
       THEN IF names = {} THEN L1 ELSE [L1 EXCEPT !.threw = TRUE]
       ELSE IF reuse
            THEN [L1 EXCEPT !.attrs[entity] = @ \cup names,
                            !.sets = @ \cup {<<entity, n>> : n \in names}]
            ELSE [L1 EXCEPT !.attrs[entity] = names,
                            !.sets = @ \cup {<<entity, n>> : n \in names},
                            !.parentNode[entity] = parentEl]

\* handleInitialSync(data): forEach over the snapshot's keys in key order; a
\* throwing handleEntityAdded ends the loop.
RECURSIVE SyncFrom(_, _, _)
SyncFrom(L, data, i) ==
  IF i > Len(KeyOrder) THEN L
  ELSE LET k == KeyOrder[i] IN
       IF ~data[k].exists \/ ~Falsy(broadcastingEntities[L.c][k])
       THEN SyncFrom(L, data, i + 1)
       ELSE LET L1 == handleEntityAdded(L, k, data[k]) IN
            IF L1.threw THEN L1 ELSE SyncFrom(L1, data, i + 1)

handleInitialSync(L, data) == SyncFrom(L, data, 1)

\* handleEntityChanged(id, components).
\* (variant: the broadcast-table check of line 108 is missing)
handleEntityChangedUnguarded(L, id) == FALSE
handleEntityChangedGuard(L, id) == ~Falsy(broadcastingEntities[L.c][id])

handleEntityChanged(L, id, components) ==
  IF handleEntityChangedGuard(L, id) THEN L
  ELSE LET entity == L.entities[id]
           names == RecordKeys(components) \ {"parentId"}
       IN IF names = {} THEN L
          ELSE IF Falsy(entity) THEN [L EXCEPT !.threw = TRUE]
          ELSE [L EXCEPT !.attrs[entity] = @ \cup names,
                         !.sets = @ \cup {<<entity, n>> : n \in names}]

\* (variant: the entry is not deleted, line 124 missing)
handleEntityRemovedKeepsEntry(L, id) ==
  LET entity == L.entities[id] IN
  IF Falsy(entity) \/ L.parentNode[entity] = Detached THEN L
  ELSE [L EXCEPT !.parentNode[entity] = Detached]

\* handleEntityRemoved(id).  removeChild on a null parentNode throws before
\* the entry is deleted.
handleEntityRemoved(L, id) ==
  LET entity == L.entities[id] IN
  IF Falsy(entity) THEN L
  ELSE IF L.parentNode[entity] = Detached THEN [L EXCEPT !.threw = TRUE]
  ELSE [L EXCEPT !.parentNode[entity] = Detached, !.entities[id] = Undefined]

\* ------------------------------------------------------------- registration
\* registerBroadcast(el), lines 130-149.  The table entry is made first; with
\* no database (inert system) `database.child` then throws; the shared check
\* reads `.owner` of a query object, which is always undefined.
registerBroadcast(c, id) ==
  LET el == El(id) IN
  /\ broadcastingEntities' = [broadcastingEntities EXCEPT ![c][id] = el]
  /\ IF status[c] = "inert"
     THEN UNCHANGED <<onDisconnect>>
     ELSE onDisconnect' = [onDisconnect EXCEPT ![c] = @ \cup {PushKey(c, id)}]

\* The id registerBroadcast leaves in the element's firebase-broadcast data.
RegisteredId(c, id) == IF status[c] = "inert" THEN EmptyId ELSE PushKey(c, id)

\* ------------------------------------------------------------------- tick
\* 'entities/' + id at line 207: id is the key of the broadcast table.
UpdatePath(c, id) == id

\* (variant: the interval check of line 163 is missing)
GatedNever(c, t) == FALSE
\* The interval gate of line 163; `time - undefined` is NaN and NaN < x is false.
Gated(c, t) == time[c] # NoTime /\ t - time[c] < interval

\* broadcastEntity(id), lines 166-208, for one key of the broadcast table.
broadcastEntity(c, id) ==
  LET el == broadcastingEntities[c][id]
      bd == bdata[c][el]
      claimed == bd.shared /\ bd.owner = NoOwner
      owner == IF claimed THEN ClientId(c) ELSE bd.owner
      foreign == bd.shared /\ owner # ClientId(c)
      addOnce == ~foreign /\ ~once[c][el]
      p == parentNode[c][el]
      hasParent == p \notin {Detached, Scene}
      pbd == IF p \in Elements THEN bdata[c][p] ELSE NoComponent
      waitParent == ~foreign /\ hasParent /\ ~pbd.has
      issued == ~foreign /\ ~waitParent
  IN [id |-> id, el |-> el, claimed |-> claimed, owner |-> owner,
      addOnce |-> addOnce, issued |-> issued,
      path |-> UpdatePath(c, id),
      data |-> [exists |-> TRUE, id |-> id, shared |-> bd.shared,
                owner |-> IF claimed THEN ClientId(c) ELSE NoOwner,
                parentId |-> IF hasParent THEN pbd.id ELSE NoParentId,
                comps |-> bd.components \cup
                          (IF addOnce THEN bd.componentsOnce ELSE {})]]

\* update(data): every named top-level field replaces the stored one, the
\* others stay.
Merge(old, data) ==
  [exists |-> TRUE, id |-> data.id, shared |-> data.shared, owner |-> data.owner,
   parentId |-> IF data.parentId # NoParentId THEN data.parentId ELSE old.parentId,
   comps |-> old.comps \cup data.comps]

Broadcasting(c) == {id \in DomIds : ~Falsy(broadcastingEntities[c][id])}

TickBody(c, t) ==
  LET B == [id \in Broadcasting(c) |-> broadcastEntity(c, id)]
      sent == {id \in Broadcasting(c) : B[id].issued}
  IN
  /\ time' = [time EXCEPT ![c] = t]
  /\ bdata' = [bdata EXCEPT ![c] = [h \in Elements |->
        IF \E id \in Broadcasting(c) : B[id].el = h /\ B[id].claimed
        THEN [@[h] EXCEPT !.owner = ClientId(c)] ELSE @[h]]]
  /\ once' = [once EXCEPT ![c] = [h \in Elements |->
        @[h] \/ \E id \in Broadcasting(c) : B[id].el = h /\ B[id].addOnce]]
  /\ store' = [k \in Keys |->
        IF \E id \in sent : B[id].path = k
        THEN Merge(store[k], B[CHOOSE id \in sent : B[id].path = k].data)
        ELSE store[k]]
  /\ lastTick' = [c |-> c, updates |-> {[id |-> id, path |-> B[id].path,
                                          data |-> B[id].data] : id \in sent}]
  /\ issuedCount' = [issuedCount EXCEPT ![c] = [id \in DomIds |->
        IF id \in sent THEN Inc(@[id]) ELSE @[id]]]
  /\ onceCount' = [onceCount EXCEPT ![c] = [id \in DomIds |->
        IF id \in sent /\ B[id].data.comps \cap bdata[c][El(id)].componentsOnce # {}
        THEN Inc(@[id]) ELSE @[id]]]
  /\ UNCHANGED <<page, status, interval, broadcastingEntities, entities, parentNode,
                 attrs, onDisconnect, childAdded, snapshotDone, addCount,
                 foreignOwnerSeen>>

\* tick(time), lines 154-209.  Timestamps never decrease.
Tick(c) ==
  /\ status[c] # "gone"
  /\ \E t \in 0..MaxTime :
       /\ time[c] = NoTime \/ t >= time[c]
       /\ IF status[c] = "inert" \/ Gated(c, t)
          THEN UNCHANGED vars
          ELSE TickBody(c, t)

\* ------------------------------------------------------------- host actions
\* The host appends the page element #box1 where the page puts it.
HostAppend(c) ==
  /\ status[c] # "gone"
  /\ page[c].under # Detached
  /\ parentNode[c][El("box1")] = Detached
  /\ parentNode' = [parentNode EXCEPT ![c][El("box1")] = page[c].under]
  /\ UNCHANGED <<page, status, interval, time, broadcastingEntities, entities,
                 bdata, once, attrs, store, onDisconnect, childAdded, snapshotDone>>
  /\ UNCHANGED ghostVars
  /\ lastTick' = NoTick

\* firebase-broadcast.init, lines 239-244: the component of an attached
\* element initialises with the page's configuration and registers the
\* element when its component list is not empty.
ComponentInit(c, id) ==
  LET cfg == page[c][id] IN
  /\ status[c] # "gone"
  /\ cfg.has
  /\ InScene(parentNode[c], El(id))
  /\ ~bdata[c][El(id)].has
  /\ IF cfg.components # {}
     THEN /\ registerBroadcast(c, id)
          /\ bdata' = [bdata EXCEPT ![c][El(id)] =
                         [cfg EXCEPT !.id = RegisteredId(c, id)]]
     ELSE /\ bdata' = [bdata EXCEPT ![c][El(id)] = cfg]
          /\ UNCHANGED <<broadcastingEntities, onDisconnect>>
  /\ UNCHANGED <<page, status, interval, time, entities, parentNode, once, attrs,
                 store, childAdded, snapshotDone>>
  /\ UNCHANGED ghostVars
  /\ lastTick' = NoTick

\* ------------------------------------------------------------ store events
\* The handlers' results become the client's state; an event for a key the
\* client broadcasts as shared that names another owner is noted.
Apply(c, L, ks) ==
  /\ entities' = [entities EXCEPT ![c] = L.entities]
  /\ parentNode' = [parentNode EXCEPT ![c] = L.parentNode]
  /\ attrs' = [attrs EXCEPT ![c] = L.attrs]
  /\ addCount' = [addCount EXCEPT ![c] = L.addCount]
  /\ foreignOwnerSeen' = [foreignOwnerSeen EXCEPT ![c] = @ \/
        \E k \in ks : /\ ~Falsy(broadcastingEntities[c][k])
                      /\ bdata[c][broadcastingEntities[c][k]].shared
                      /\ store[k].owner \notin {NoOwner, ClientId(c)}]
  /\ lastTick' = NoTick
  /\ UNCHANGED <<page, status, interval, time, broadcastingEntities, bdata, once,
                 store, onDisconnect, issuedCount, onceCount>>

Present == {k \in Keys : store[k].exists}

\* once('value'), lines 43-45.
InitialSync(c) ==
  /\ status[c] = "online"
  /\ ~snapshotDone[c]
  /\ snapshotDone' = [snapshotDone EXCEPT ![c] = TRUE]
  /\ Apply(c, handleInitialSync(Local(c), store), Present)
  /\ UNCHANGED childAdded

\* on('child_added'), lines 47-49: fires once for every key that appears.
ChildAdded(c, k) ==
  /\ status[c] = "online"
  /\ store[k].exists
  /\ k \notin childAdded[c]
  /\ childAdded' = [childAdded EXCEPT ![c] = @ \cup {k}]
  /\ Apply(c, handleEntityAdded(Local(c), k, store[k]), {k})
  /\ UNCHANGED snapshotDone

\* on('child_changed'), lines 51-53: a known key's record was updated.
ChildChanged(c, k) ==
  /\ status[c] = "online"
  /\ store[k].exists
  /\ k \in childAdded[c]
  /\ Apply(c, handleEntityChanged(Local(c), k, store[k]), {k})
  /\ UNCHANGED <<childAdded, snapshotDone>>

\* on('child_removed'), lines 55-57: a known key disappeared.
ChildRemoved(c, k) ==
  /\ status[c] = "online"
  /\ ~store[k].exists
  /\ k \in childAdded[c]
  /\ childAdded' = [childAdded EXCEPT ![c] = @ \ {k}]
  /\ Apply(c, [handleEntityRemoved(Local(c), k) EXCEPT !.addCount[k] = 0], {})
  /\ UNCHANGED snapshotDone

\* The client's connection drops abruptly (its process ends, so its local
\* state is gone with it): the store runs the removals the client registered
\* with onDisconnect().remove(), line 148.
Disconnect(c) ==
  /\ status[c] = "online"
  /\ status' = [status EXCEPT ![c] = "gone"]
  /\ store' = [k \in Keys |-> IF k \in onDisconnect[c] THEN NoRecord ELSE store[k]]
  /\ onDisconnect' = [onDisconnect EXCEPT ![c] = {}]
  /\ time' = [time EXCEPT ![c] = NoTime]
  /\ broadcastingEntities' = [broadcastingEntities EXCEPT ![c] = [k \in Keys |-> Undefined]]
  /\ entities' = [entities EXCEPT ![c] = [k \in Keys |-> Undefined]]
  /\ parentNode' = [parentNode EXCEPT ![c] = [h \in Handles |-> Detached]]
  /\ bdata' = [bdata EXCEPT ![c] = [h \in Elements |-> NoComponent]]
  /\ once' = [once EXCEPT ![c] = [h \in Elements |-> FALSE]]
  /\ attrs' = [attrs EXCEPT ![c] = [h \in Handles |-> {}]]
  /\ childAdded' = [childAdded EXCEPT ![c] = {}]
  /\ snapshotDone' = [snapshotDone EXCEPT ![c] = FALSE]
  /\ addCount' = [addCount EXCEPT ![c] = [k \in Keys |-> 0]]
  /\ foreignOwnerSeen' = [foreignOwnerSeen EXCEPT ![c] = FALSE]
  /\ lastTick' = NoTick
  /\ UNCHANGED <<page, interval, issuedCount, onceCount>>

\* A record is deleted at the store by someone else (another application or
\* the database's administrator): the source of child_removed events.
StoreRemove(k) ==
  /\ store[k].exists
  /\ store' = [store EXCEPT ![k] = NoRecord]
  /\ UNCHANGED <<page, status, interval, time, onDisconnect, childAdded, snapshotDone>>
  /\ UNCHANGED localVars
  /\ UNCHANGED ghostVars
  /\ lastTick' = NoTick

\* ------------------------------------------------------------ specification
\* System init, lines 15-58: empty tables, #par in the scene, #box1 not yet
\* appended.
Init ==
  /\ \E s \in Setups : page = s.page /\ status = s.status
  /\ interval \in {IntervalOf(cfg) : cfg \in ConfigIntervals}
  /\ time = [c \in Clients |-> NoTime]
  /\ broadcastingEntities = [c \in Clients |-> [k \in Keys |-> Undefined]]
  /\ entities = [c \in Clients |-> [k \in Keys |-> Undefined]]
  /\ parentNode = [c \in Clients |-> [h \in Handles |->
                     IF h = El("par") THEN Scene ELSE Detached]]
  /\ bdata = [c \in Clients |-> [h \in Elements |-> NoComponent]]
  /\ once = [c \in Clients |-> [h \in Elements |-> FALSE]]
  /\ attrs = [c \in Clients |-> [h \in Handles |-> {}]]
  /\ store = [k \in Keys |-> NoRecord]
  /\ onDisconnect = [c \in Clients |-> {}]
  /\ childAdded = [c \in Clients |-> {}]
  /\ snapshotDone = [c \in Clients |-> FALSE]
  /\ addCount = [c \in Clients |-> [k \in Keys |-> 0]]
  /\ lastTick = NoTick
  /\ issuedCount = [c \in Clients |-> [id \in DomIds |-> 0]]
  /\ onceCount = [c \in Clients |-> [id \in DomIds |-> 0]]
  /\ foreignOwnerSeen = [c \in Clients |-> FALSE]

Next ==
  \/ \E c \in Clients : HostAppend(c)
  \/ \E c \in Clients, id \in DomIds : ComponentInit(c, id)
  \/ \E c \in Clients : Tick(c)
  \/ \E c \in Clients : InitialSync(c)
  \/ \E c \in Clients, k \in Keys : ChildAdded(c, k)
  \/ \E c \in Clients, k \in Keys : ChildChanged(c, k)
  \/ \E c \in Clients, k \in Keys : ChildRemoved(c, k)
  \/ \E c \in Clients : Disconnect(c)
  \/ \E k \in Keys : StoreRemove(k)

Spec == Init /\ [][Next]_vars

\* ------------------------------------------------------------------ claims
\* Client c registered the element id as a shared entity whose owner was empty.
SharedUnowned(c, id) ==
  /\ ~Falsy(broadcastingEntities[c][id])
  /\ page[c][id].shared /\ page[c][id].owner = NoOwner
Owns(c, id) == bdata[c][El(id)].owner = ClientId(c)
\* The only updates ever issued for the element id are those of client c.
OnlyWriter(c, id) ==
  issuedCount[c][id] > 0 /\ \A d \in Clients \ {c} : issuedCount[d][id] = 0

\* C1: of the clients that registered the same shared entity with an empty
\* owner, at most one holds `owner` equal to its own Client Identity, and a
\* tick never changes a non-empty local `owner`.
C1_OwnershipExclusive ==
  /\ [](\A id \in DomIds : \A c, d \in Clients :
          (c # d /\ SharedUnowned(c, id) /\ SharedUnowned(d, id))
             => ~(Owns(c, id) /\ Owns(d, id)))
  /\ [][\A id \in DomIds : \A c \in Clients :
          (Tick(c) /\ bdata[c][El(id)].owner # NoOwner)
             => bdata'[c][El(id)].owner = bdata[c][El(id)].owner]_vars

\* C2: once an event naming another client as the owner of a shared entity
\* has been delivered to a client that registered it with an empty owner, no
\* executed tick of that client issues an update for the entity.
C2_NonOwnerSilent ==
  \A id \in DomIds :
    (lastTick.c \in Clients /\ SharedUnowned(lastTick.c, id)
       /\ foreignOwnerSeen[lastTick.c])
      => \A u \in lastTick.updates : u.id # id

\* C3: an added, changed or initial-snapshot event that carries the key of
\* the record a client's own tick writes for an entity of its Broadcast Table
\* sets no component on that entity.
Untouched(c, el, L) ==
  /\ \A call \in L.sets : call[1] # el
  /\ attrs'[c][el] = attrs[c][el]
C3_NoSelfFeedback ==
  [][\A c \in Clients : \A id \in Broadcasting(c) :
       LET k == UpdatePath(c, id)
           el == broadcastingEntities[c][id]
       IN /\ ChildAdded(c, k)
               => Untouched(c, el, handleEntityAdded(Local(c), k, store[k]))
          /\ ChildChanged(c, k)
               => Untouched(c, el, handleEntityChanged(Local(c), k, store[k]))
          /\ InitialSync(c)
               => Untouched(c, el, handleInitialSync(Local(c), store))]_vars
\* A client has received the added event of the record that only its own
\* ticks wrote for an entity it broadcasts.
C3_Witness ==
  \E c \in Clients : \E id \in Broadcasting(c) :
    /\ OnlyWriter(c, id)
    /\ UpdatePath(c, id) \in childAdded[c]
    /\ addCount[c][UpdatePath(c, id)] > 0

\* C4: every update a tick issues for a registered entity targets
\* entities/<r>, r being the key registration generated and wrote into the
\* entity's firebase-broadcast `id`.
C4_UpdateAtGeneratedId ==
  \A u \in lastTick.updates : u.path = bdata[lastTick.c][El(u.id)].id

\* C5: after a client that broadcast a non-shared entity disconnects and the
\* store has run its disconnect removals, no record its ticks wrote for that
\* entity remains.
C5_DisconnectPrunes ==
  \A c \in Clients : \A id \in DomIds :
    (status[c] = "gone" /\ page[c][id].has /\ ~page[c][id].shared
       /\ OnlyWriter(c, id))
      => \A k \in Keys : ~(store[k].exists /\ store[k].id = id)

\* C6: an added event delivered twice or more for a key (with no removal in
\* between, the key not being broadcast locally) leaves exactly one local
\* entity and one Replica Table entry for it, and the later deliveries change
\* nothing.
DeliveredTwice(c, k) == addCount[c][k] >= 2 /\ Falsy(broadcastingEntities[c][k])
C6_AddedIdempotent ==
  /\ [](\A c \in Clients : \A k \in Keys :
          DeliveredTwice(c, k)
            => /\ entities[c][k] \in Handles
               /\ \A j \in Keys \ {k} : entities[c][j] # entities[c][k])
  /\ [][\A c \in Clients : \A k \in Keys :
          (ChildAdded(c, k) /\ addCount[c][k] >= 1)
            => /\ handleEntityAdded(Local(c), k, store[k]).sets = {}
               /\ <<entities, parentNode, attrs>>' = <<entities, parentNode, attrs>>]_vars

\* C7: the componentsOnce components of an entity are carried by exactly one
\* update, the first one issued for it.
C7_OnceExactlyOnce ==
  \A c \in Clients : \A id \in DomIds :
    (page[c][id].componentsOnce # {} /\ issuedCount[c][id] >= 1)
      => onceCount[c][id] = 1

\* C8: a tick issues no update for an entity whose parent is not the scene
\* root and has no resolved (non-empty) broadcast id.
C8_ParentGate ==
  \A u \in lastTick.updates :
    LET p == parentNode[lastTick.c][El(u.id)] IN
    p \notin {Scene, Detached}
      => p \in Elements /\ bdata[lastTick.c][p].id # EmptyId

\* C9: the parentId of an update issued for a child whose parent has a remote
\* id is the key under which the parent's own record is stored.
C9_ParentLinkage ==
  \A u \in lastTick.updates :
    \A pid \in Broadcasting(lastTick.c) :
      (parentNode[lastTick.c][El(u.id)] = broadcastingEntities[lastTick.c][pid]
         /\ bdata[lastTick.c][El(pid)].id # EmptyId)
        => u.data.parentId = UpdatePath(lastTick.c, pid)

\* C10: a removed event for a key of the Replica Table detaches that entity
\* and erases exactly that entry; for any other key it changes neither the
\* scene nor a table.
C10_RemovalCleanup ==
  [][\A c \in Clients : \A k \in Keys :
       ChildRemoved(c, k) =>
         LET e == entities[c][k] IN
         /\ broadcastingEntities'[c] = broadcastingEntities[c]
         /\ attrs'[c] = attrs[c]
         /\ IF e \in Handles
            THEN /\ entities'[c] = [entities[c] EXCEPT ![k] = Undefined]
                 /\ parentNode'[c] = [parentNode[c] EXCEPT ![e] = Detached]
                 /\ parentNode[c][e] # Detached
            ELSE /\ entities'[c] = entities[c]
                 /\ parentNode'[c] = parentNode[c]]_vars
\* A replica that was created for a key has been detached and its entry erased.
C10_Witness ==
  \E c \in Clients : \E k \in Keys :
    /\ status[c] = "online"
    /\ attrs[c][Rep(k)] # {}
    /\ parentNode[c][Rep(k)] = Detached
    /\ entities[c][k] = Undefined

\* C11: on a client whose system was initialised without a configuration, a
\* registration (the init of a component with a non-empty component list)
\* changes neither table, issues no store operation and leaves the element's
\* firebase-broadcast data as the page configured it.
C11_InertNoOp ==
  [][\A c \in Clients : \A id \in DomIds :
       (status[c] = "inert" /\ page[c][id].components # {} /\ ComponentInit(c, id))
         => /\ broadcastingEntities'[c] = broadcastingEntities[c]
            /\ entities'[c] = entities[c]
            /\ store' = store /\ onDisconnect' = onDisconnect
            /\ bdata'[c][El(id)] = page[c][id]]_vars

\* C12: a changed event for a key for which the client holds no entity in its
\* Replica Table and none in its Broadcast Table raises no error, sets no
\* attribute and changes no table, whatever the record carries.
C12_ChangedUnknownNoOp ==
  [][\A c \in Clients : \A k \in Keys :
       (ChildChanged(c, k) /\ Falsy(entities[c][k])
          /\ Falsy(broadcastingEntities[c][k]))
         => LET L == handleEntityChanged(Local(c), k, store[k]) IN
            /\ ~L.threw /\ L.sets = {}
            /\ <<entities, parentNode, attrs, broadcastingEntities>>'
                 = <<entities, parentNode, attrs, broadcastingEntities>>]_vars

\* C13: no remote event handler (initial snapshot, added, changed) ever sets
\* the record field `firebase-broadcast` on a local entity.
C13_MetaNeverApplied ==
  \A c \in Clients : \A h \in Handles : "firebase-broadcast" \notin attrs[c][h]

\* C14: a tick of a connected client runs its broadcast pass only when no pass
\* has run yet or at least `interval` has elapsed since the last pass that
\* ran, so two consecutive passes are at least one interval apart; a tick that
\* comes sooner issues no update and changes nothing.  (lastTick' names the
\* client whose pass ran in the step, time' holds that tick's timestamp.)
C14_RateLimit ==
  [][\A c \in Clients :
       (status[c] = "online" /\ lastTick'.c = c)
         => time[c] = NoTime \/ time'[c] - time[c] >= interval]_vars
\* A client has run two broadcast passes one interval apart, each issuing an
\* update for the same element.
C14_Witness ==
  \E c \in Clients : \E id \in DomIds :
    /\ status[c] = "online" /\ interval <= MaxTime
    /\ time[c] = interval /\ issuedCount[c][id] = 2
    /\ lastTick.c = c

\* C15: a broadcast pass that claims a shared, unowned entity (sets its local
\* owner to the client's identity) also issues an update for that entity
\* whose firebase-broadcast.owner is that identity.
C15_ClaimPublished ==
  [][\A c \in Clients : \A id \in DomIds :
       (lastTick'.c = c /\ id \in Broadcasting(c)
          /\ bdata[c][El(id)].owner = NoOwner /\ bdata'[c][El(id)].owner = ClientId(c))
         => \E u \in lastTick'.updates :
              u.id = id /\ u.data.owner = ClientId(c)]_vars

\* C16: every entry of a Replica Table refers to an existing entity: an added
\* event never leaves a null handle under the key it handled.
C16_ReplicaHandleReal ==
  \A c \in Clients : \A k \in Keys :
    entities[c][k] # Undefined => entities[c][k] \in Handles

\* C18: once the record a shared entity's owner writes carries the owner's
\* Client Identity in firebase-broadcast.owner, it still carries it after
\* every later broadcast pass of the owner.
C18_OwnerPersists ==
  [][\A c \in Clients : \A id \in DomIds :
       (lastTick'.c = c /\ id \in Broadcasting(c) /\ Owns(c, id)
          /\ store[UpdatePath(c, id)].exists
          /\ store[UpdatePath(c, id)].owner = ClientId(c))
         => store'[UpdatePath(c, id)].owner = ClientId(c)]_vars

\* C19: the updates a client issues for a non-shared entity go to a record
\* that no other client writes for a non-shared entity of its own.
C19_DistinctRecords ==
  \A u \in lastTick.updates :
    \A d \in Clients \ {lastTick.c} : \A e \in Broadcasting(d) :
      (~u.data.shared /\ ~bdata[d][El(e)].shared) => UpdatePath(d, e) # u.path

\* C20: no key is held by the Replica Table and the Broadcast Table of the
\* same client at once.
C20_TablesDisjoint ==
  \A c \in Clients : \A k \in Keys :
    ~(~Falsy(entities[c][k]) /\ ~Falsy(broadcastingEntities[c][k]))

\* ------------------------------------------- a channel with foreign records
\* The `entities` collection of a channel is open to every writer of the
\* database: the handlers of lines 43-57 receive whatever record appears
\* under it.  In this specification one client listens (no element of its
\* page carries firebase-broadcast, its #box1 is a plain element the host
\* appends to the scene), the other client has left, and another writer sets
\* records under two keys.
SetupListen ==
  [page |-> [c \in Clients |-> PageOf(NoComponent, Scene, NoComponent)],
   status |-> [c \in Clients |-> IF c = 1 THEN "online" ELSE "gone"]]

\* The records the other writer sets under key k: a plain record without a
\* parent or with the other key as its parentId and, under "box1", a shared
\* record naming the element #box1.
ForeignRecords(k) ==
  {[exists |-> TRUE, id |-> k, shared |-> FALSE, owner |-> NoOwner,
    parentId |-> p, comps |-> {"position"}] :
      p \in {NoParentId} \cup (DomIds \ {k})}
  \cup (IF k = "box1"
        THEN {[exists |-> TRUE, id |-> k, shared |-> TRUE, owner |-> ClientId(2),
               parentId |-> NoParentId, comps |-> {"position"}]}
        ELSE {})

\* set(record) at entities/<k> by the other writer.
ForeignWrite(k) ==
  /\ \E r \in ForeignRecords(k) : r # store[k] /\ store' = [store EXCEPT ![k] = r]
  /\ UNCHANGED <<page, status, interval, time, onDisconnect, childAdded, snapshotDone>>
  /\ UNCHANGED localVars
  /\ UNCHANGED ghostVars
  /\ lastTick' = NoTick

InitForeign ==
  /\ page = SetupListen.page /\ status = SetupListen.status
  /\ interval = IntervalOf(0)
  /\ time = [c \in Clients |-> NoTime]
  /\ broadcastingEntities = [c \in Clients |-> [k \in Keys |-> Undefined]]
  /\ entities = [c \in Clients |-> [k \in Keys |-> Undefined]]
  /\ parentNode = [c \in Clients |-> [h \in Handles |->
                     IF h = El("par") THEN Scene ELSE Detached]]
  /\ bdata = [c \in Clients |-> [h \in Elements |-> NoComponent]]
  /\ once = [c \in Clients |-> [h \in Elements |-> FALSE]]
  /\ attrs = [c \in Clients |-> [h \in Handles |-> {}]]
  /\ store = [k \in Keys |-> NoRecord]
  /\ onDisconnect = [c \in Clients |-> {}]
  /\ childAdded = [c \in Clients |-> {}]
  /\ snapshotDone = [c \in Clients |-> FALSE]
  /\ addCount = [c \in Clients |-> [k \in Keys |-> 0]]
  /\ lastTick = NoTick
  /\ issuedCount = [c \in Clients |-> [id \in DomIds |-> 0]]
  /\ onceCount = [c \in Clients |-> [id \in DomIds |-> 0]]
  /\ foreignOwnerSeen = [c \in Clients |-> FALSE]

\* The steps of this scene: no component initialises, every other step of
\* Next can occur.
NextForeign ==
  \/ \E c \in Clients : HostAppend(c)
  \/ \E c \in Clients : Tick(c)
  \/ \E c \in Clients : InitialSync(c)
  \/ \E c \in Clients, k \in Keys : ChildAdded(c, k)
  \/ \E c \in Clients, k \in Keys : ChildChanged(c, k)
  \/ \E c \in Clients, k \in Keys : ChildRemoved(c, k)
  \/ \E c \in Clients : Disconnect(c)
  \/ \E k \in Keys : StoreRemove(k)
  \/ \E k \in DomIds : ForeignWrite(k)

SpecForeign == InitForeign /\ [][NextForeign]_vars

\* The entity a Replica Table holds for a record's parentId, the scene when
\* it holds none.
ResolvedParent(tbl, data) ==
  IF data.parentId \in Keys /\ tbl[data.parentId] \in Handles
  THEN tbl[data.parentId] ELSE Scene
\* Object.keys order: key p comes before key k.
Before(p, k) ==
  \E i, j \in 1..Len(KeyOrder) : i < j /\ KeyOrder[i] = p /\ KeyOrder[j] = k

\* C17: an added event that creates a replica attaches it below the entity
\* the Replica Table holds for the record's parentId at that moment, below the
\* scene when it holds none; an added event that reuses a local element or
\* finds the key known moves nothing; a changed event moves nothing; the
\* initial snapshot does the same, key by key in its order.
C17_ParentResolution ==
  [][\A c \in Clients :
       /\ \A k \in Keys :
            /\ ChildAdded(c, k) =>
                 IF Falsy(entities[c][k]) /\ Falsy(broadcastingEntities[c][k])
                    /\ ~(store[k].shared /\ store[k].id # EmptyId)
                 THEN parentNode'[c] = [parentNode[c] EXCEPT
                        ![Rep(k)] = ResolvedParent(entities[c], store[k])]
                 ELSE parentNode'[c] = parentNode[c]
            /\ ChildChanged(c, k) => parentNode'[c] = parentNode[c]
       /\ InitialSync(c) =>
            \A h \in Handles :
              IF parentNode[c][h] # Detached
              THEN parentNode'[c][h] = parentNode[c][h]
              ELSE parentNode'[c][h] # Detached =>
                     \E k \in Keys :
                       /\ h = Rep(k) /\ Falsy(entities[c][k]) /\ entities'[c][k] = h
                       /\ LET p == store[k].parentId IN
                          parentNode'[c][h] =
                            IF p \in Keys /\ entities'[c][p] \in Handles
                               /\ (entities[c][p] \in Handles \/ Before(p, k))
                            THEN entities'[c][p] ELSE Scene]_vars
\* A replica stands below the replica of the record its record names as parent.
C17_Witness ==
  \E c \in Clients : \E k, p \in Keys :
    /\ k # p /\ store[k].exists /\ store[k].parentId = p
    /\ entities[c][k] = Rep(k) /\ entities[c][p] = Rep(p)
    /\ parentNode[c][Rep(k)] = Rep(p)

====
